---- MODULE Spec2Model ----
(***************************************************************************)
(* Model of the two page scripts of the repository:                        *)
(*   src/staticfiles/js/script.js      (page interaction script)           *)
(*   src/car_rental/static/js/main.js  (carousel controller)               *)
(* The state is the part of the DOM the scripts read and write, the set of *)
(* registered listeners, the pending one-shot timer, and the uncaught      *)
(* TypeErrors raised by the handlers.  Every browser event is one action   *)
(* that runs all the listeners the scripts registered for it.              *)
(***************************************************************************)
EXTENDS Integers, Sequences, FiniteSets

\* ---------------------------------------------------------------- bounds
\* scroll offsets a scroll handler can read from window.scrollY
Offsets == {0, 50, 51, 300, 301}
\* clicks of each kind that are explored
MaxClicks == 2
\* the clock after the load event saturates here (ms)
MaxElapsed == 1000
\* granularity of the clock (ms)
TickStep == 250
\* slides of the carousel
NumSlides == 2

\* ---------------------------------------------------- program constants
PreloaderDelay == 500
NavbarThreshold == 50
BackToTopThreshold == 300
CarouselInterval == 5000

NoTimer == -1
NoScroll == -1

PageElements == {"preloader", "mainNavbar", "backToTop", "skipLink", "main-content"}
Elements == PageElements \cup {"carCarousel"}
TabIndexValues == {"none", "0", "-1"}
NoConfig == [interval |-> 0, wrap |-> FALSE, keyboard |-> FALSE]

VARIABLES
    present,          \* elements that exist in the document
    pc,               \* script.js: "loading" until its DOMContentLoaded handler ran
    carouselPc,       \* main.js: "loading" until its DOMContentLoaded handler ran
    listeners,        \* listeners registered so far
    failures,         \* uncaught TypeErrors, by the place that raised them
    navbarScrolled,   \* navbar.classList contains "navbar-scrolled"
    backToTopShown,   \* backToTopButton.classList contains "show"
    lastScrollY,      \* window.scrollY read by the scroll listeners at the last scroll event
    loadFired,        \* the window load event has fired
    sinceLoad,        \* ms elapsed since the load event (saturating)
    timerDue,         \* value of sinceLoad at which the pending timeout may run
    preloaderHidden,  \* preloader.classList contains "hidden"
    hiddenAdds,       \* runs of the timeout callback
    focus,            \* document.activeElement
    mainTabindex,     \* tabindex attribute of #main-content
    skipClicks,       \* clicks on the skip link so far
    backToTopClicks,  \* clicks on the back-to-top control so far
    scrollRequests,   \* arguments of the window.scrollTo calls so far
    nativeNav,        \* links whose default click action was carried out
    carouselConfig,   \* options handed to bootstrap.Carousel
    cycling,          \* the widget's auto-advance interval is running
    lastPointer,      \* most recent pointer event handled on the carousel
    slide             \* active slide of the widget

vars == <<present, pc, carouselPc, listeners, failures, navbarScrolled,
          backToTopShown, lastScrollY, loadFired, sinceLoad, timerDue,
          preloaderHidden, hiddenAdds, focus, mainTabindex, skipClicks,
          backToTopClicks, scrollRequests, nativeNav, carouselConfig, cycling, lastPointer, slide>>

scrollVars == <<navbarScrolled, backToTopShown, lastScrollY>>
preloaderVars == <<loadFired, sinceLoad, timerDue, preloaderHidden, hiddenAdds>>
clickVars == <<focus, mainTabindex, skipClicks, backToTopClicks, scrollRequests, nativeNav>>
carouselVars == <<carouselPc, carouselConfig, cycling, lastPointer, slide>>

Min(a, b) == IF a < b THEN a ELSE b

\* ------------------------------------------------------------ script.js
\* variant: the click listener registration guarded like the other lookups
ScriptThrowsGuarded(p) == FALSE

\* The listeners the DOMContentLoaded handler registers before it returns or
\* throws: the click listener is added on backToTopButton itself, so a missing
\* button ends the handler there and the skip-link block is never reached.
ScriptThrows(p) == "backToTop" \notin p

ScriptListeners(p) ==
    (IF "preloader" \in p THEN {"load"} ELSE {})
    \cup {"scrollNavbar", "scrollBackToTop"}
    \cup (IF ScriptThrows(p)
            THEN {}
            ELSE {"clickBackToTop"}
                 \cup (IF "skipLink" \in p THEN {"clickSkipLink"} ELSE {}))

\* variant: inclusive comparison
NavbarClassInclusive(y) == y >= NavbarThreshold

\* class state the navbar scroll listener leaves for offset y
NavbarClass(y) == y > NavbarThreshold

\* variant: inclusive comparison
BackToTopClassInclusive(y) == y >= BackToTopThreshold

\* class state the back-to-top scroll listener leaves for offset y
BackToTopClass(y) == y > BackToTopThreshold

\* variant: the delay argument dropped
TimerDueNow(now) == now

\* setTimeout(..., 500) called at time now
TimerDue(now) == now + PreloaderDelay

\* variant: an instant jump instead of a smooth scroll
ScrollToRequestAuto == [top |-> 0, behavior |-> "auto"]

\* window.scrollTo argument of the back-to-top click listener
ScrollToRequest == [top |-> 0, behavior |-> "smooth"]

\* variant: the attribute left as it is
SkipTabindexKeep(t) == t

\* mainContent.setAttribute('tabindex', '-1')
SkipTabindex(t) == "-1"

\* mainContent.focus() moves focus only to an element that is focusable
CanFocus(t) == t # "none"

Init ==
    /\ present \in SUBSET Elements
    /\ pc = "loading"
    /\ carouselPc = "loading"
    /\ listeners = {}
    /\ failures = {}
    /\ navbarScrolled \in (IF "mainNavbar" \in present THEN BOOLEAN ELSE {FALSE})
    /\ backToTopShown \in (IF "backToTop" \in present THEN BOOLEAN ELSE {FALSE})
    /\ lastScrollY = NoScroll
    /\ loadFired = FALSE
    /\ sinceLoad = 0
    /\ timerDue = NoTimer
    /\ preloaderHidden = FALSE
    /\ hiddenAdds = 0
    /\ focus = "body"
    /\ mainTabindex \in (IF "main-content" \in present THEN TabIndexValues ELSE {"none"})
    /\ skipClicks = 0
    /\ backToTopClicks = 0
    /\ scrollRequests = <<>>
    /\ nativeNav = {}
    /\ carouselConfig = NoConfig
    /\ cycling = FALSE
    /\ lastPointer = "none"
    /\ slide = 0

\* document DOMContentLoaded, listener of script.js
ScriptReady ==
    /\ pc = "loading"
    /\ pc' = "ready"
    /\ listeners' = listeners \cup ScriptListeners(present)
    /\ failures' = IF ScriptThrows(present) THEN failures \cup {"init"} ELSE failures
    /\ UNCHANGED <<present, scrollVars, preloaderVars, clickVars, carouselVars>>

\* window load: the listener, when registered, arms the one-shot timer
Load ==
    /\ pc = "ready"
    /\ ~loadFired
    /\ loadFired' = TRUE
    /\ timerDue' = IF "load" \in listeners THEN TimerDue(sinceLoad) ELSE timerDue
    /\ UNCHANGED <<present, pc, listeners, failures, scrollVars, sinceLoad,
                   preloaderHidden, hiddenAdds, clickVars, carouselVars>>

\* time passes after the load event
Tick ==
    /\ loadFired
    /\ sinceLoad < MaxElapsed
    /\ sinceLoad' = Min(sinceLoad + TickStep, MaxElapsed)
    /\ UNCHANGED <<present, pc, listeners, failures, scrollVars, loadFired,
                   timerDue, preloaderHidden, hiddenAdds, clickVars, carouselVars>>

\* the timeout callback: runs no earlier than its delay, once
Timeout ==
    /\ timerDue # NoTimer
    /\ sinceLoad >= timerDue
    /\ timerDue' = NoTimer
    /\ preloaderHidden' = TRUE
    /\ hiddenAdds' = hiddenAdds + 1
    /\ UNCHANGED <<present, pc, listeners, failures, scrollVars, loadFired,
                   sinceLoad, clickVars, carouselVars>>

\* window scroll with window.scrollY = y: both scroll listeners run in
\* registration order, and an exception in the first does not stop the second
ScrollEvent(y) ==
    /\ "scrollNavbar" \in listeners
    /\ "scrollBackToTop" \in listeners
    /\ lastScrollY' = y
    /\ navbarScrolled' = IF "mainNavbar" \in present THEN NavbarClass(y) ELSE navbarScrolled
    /\ backToTopShown' = IF "backToTop" \in present THEN BackToTopClass(y) ELSE backToTopShown
    /\ failures' = failures
                   \cup (IF "mainNavbar" \in present THEN {} ELSE {"scrollNavbar"})
                   \cup (IF "backToTop" \in present THEN {} ELSE {"scrollBackToTop"})
    /\ UNCHANGED <<present, pc, listeners, preloaderVars, clickVars, carouselVars>>

\* click on the back-to-top control
BackToTopClick ==
    /\ "backToTop" \in present
    /\ backToTopClicks < MaxClicks
    /\ backToTopClicks' = backToTopClicks + 1
    /\ focus' = "backToTop"
    /\ IF "clickBackToTop" \in listeners
         THEN /\ scrollRequests' = Append(scrollRequests, ScrollToRequest)
              /\ nativeNav' = nativeNav
         ELSE /\ scrollRequests' = scrollRequests
              /\ nativeNav' = nativeNav \cup {"backToTop"}
    /\ UNCHANGED <<present, pc, listeners, failures, scrollVars, preloaderVars,
                   mainTabindex, skipClicks, carouselVars>>

\* click on the skip link
SkipLinkClick ==
    /\ "skipLink" \in present
    /\ skipClicks < MaxClicks
    /\ skipClicks' = skipClicks + 1
    /\ IF "clickSkipLink" \in listeners
         THEN /\ nativeNav' = nativeNav
              /\ IF "main-content" \in present
                   THEN /\ mainTabindex' = SkipTabindex(mainTabindex)
                        /\ focus' = IF CanFocus(mainTabindex') THEN "main-content" ELSE "skipLink"
                   ELSE /\ mainTabindex' = mainTabindex
                        /\ focus' = "skipLink"
         ELSE /\ nativeNav' = nativeNav \cup {"skipLink"}
              /\ mainTabindex' = mainTabindex
              /\ focus' = "skipLink"
    /\ UNCHANGED <<present, pc, listeners, failures, scrollVars, preloaderVars,
                   backToTopClicks, scrollRequests, carouselVars>>

\* -------------------------------------------------------------- main.js
CarouselOptions == [interval |-> CarouselInterval, wrap |-> TRUE, keyboard |-> TRUE]

\* variant: the leave listener pauses as well
MouseLeaveCommandPause == "pause"

\* command each hover listener issues to the widget
MouseEnterCommand == "pause"
MouseLeaveCommand == "cycle"

\* the widget's pause() and cycle()
Widget(cmd, c) == IF cmd = "pause" THEN FALSE ELSE IF cmd = "cycle" THEN TRUE ELSE c

\* the widget's next slide, honouring wrap
NextSlide(s, cfg) ==
    IF s + 1 < NumSlides THEN s + 1 ELSE IF cfg.wrap THEN 0 ELSE s

\* document DOMContentLoaded, listener of main.js: carouselElement is used
\* without an existence check, so a missing container ends the handler with a
\* TypeError before any listener is registered
CarouselReady ==
    /\ carouselPc = "loading"
    /\ carouselPc' = "ready"
    /\ IF "carCarousel" \in present
         THEN /\ carouselConfig' = CarouselOptions
              /\ cycling' \in BOOLEAN
              /\ listeners' = listeners \cup {"mouseenter", "mouseleave"}
              /\ failures' = failures
         ELSE /\ carouselConfig' = carouselConfig
              /\ cycling' = cycling
              /\ listeners' = listeners
              /\ failures' = failures \cup {"carouselInit"}
    /\ UNCHANGED <<present, pc, scrollVars, preloaderVars, clickVars, lastPointer, slide>>

MouseEnter ==
    /\ "mouseenter" \in listeners
    /\ lastPointer' = "enter"
    /\ cycling' = Widget(MouseEnterCommand, cycling)
    /\ UNCHANGED <<present, pc, listeners, failures, scrollVars, preloaderVars,
                   clickVars, carouselPc, carouselConfig, slide>>

MouseLeave ==
    /\ "mouseleave" \in listeners
    /\ lastPointer' = "leave"
    /\ cycling' = Widget(MouseLeaveCommand, cycling)
    /\ UNCHANGED <<present, pc, listeners, failures, scrollVars, preloaderVars,
                   clickVars, carouselPc, carouselConfig, slide>>

\* the widget's interval elapses
AutoAdvance ==
    /\ carouselPc = "ready"
    /\ cycling
    /\ slide' = NextSlide(slide, carouselConfig)
    /\ slide' # slide
    /\ UNCHANGED <<present, pc, listeners, failures, scrollVars, preloaderVars,
                   clickVars, carouselPc, carouselConfig, cycling, lastPointer>>

Next ==
    \/ ScriptReady
    \/ Load
    \/ Tick
    \/ Timeout
    \/ \E y \in Offsets : ScrollEvent(y)
    \/ BackToTopClick
    \/ SkipLinkClick
    \/ CarouselReady
    \/ MouseEnter
    \/ MouseLeave
    \/ AutoAdvance

Spec == Init /\ [][Next]_vars

\* time passes and the browser runs a timeout that is due
FairSpec == Spec /\ WF_vars(Tick) /\ WF_vars(Timeout)

\* ---------------------------------------------------------------- claims

\* C1: with the navbar present, once a scroll event has been handled the
\* navbar carries the scrolled class exactly when the offset read at the most
\* recent scroll event was strictly greater than 50 (50 without, 51 with).
C1_NavbarThreshold ==
    ("mainNavbar" \in present /\ lastScrollY # NoScroll)
        => /\ navbarScrolled <=> (lastScrollY > 50)
           /\ lastScrollY = 50 => ~navbarScrolled
           /\ lastScrollY = 51 => navbarScrolled

C1_Witness ==
    /\ "mainNavbar" \in present
    /\ lastScrollY = 50
    /\ ~navbarScrolled
    /\ "backToTop" \notin present

\* C2: with the back-to-top control present, once a scroll event has been
\* handled the control carries the show class exactly when the offset read at
\* the most recent scroll event was strictly greater than 300.
C2_BackToTopVisibility ==
    ("backToTop" \in present /\ lastScrollY # NoScroll)
        => (backToTopShown <=> (lastScrollY > 300))

C2_Witness ==
    /\ "backToTop" \in present
    /\ lastScrollY = 300
    /\ ~backToTopShown
    /\ "mainNavbar" \notin present

\* C3: the preloader is hidden only after the load event and no earlier than
\* 500 ms after it, the callback runs at most once and, the timer being fair,
\* exactly once, and the hidden class is never removed.
C3_PreloaderTiming ==
    /\ [](preloaderHidden => (loadFired /\ sinceLoad >= 500 /\ "preloader" \in present))
    /\ [](hiddenAdds <= 1 /\ (preloaderHidden <=> hiddenAdds = 1))
    /\ [][preloaderHidden => preloaderHidden']_vars
    /\ ((loadFired /\ "preloader" \in present) ~> (preloaderHidden /\ hiddenAdds = 1))

C3_Witness ==
    /\ preloaderHidden
    /\ hiddenAdds = 1
    /\ sinceLoad = MaxElapsed
    /\ "backToTop" \notin present

\* C4 as stated: every skip-link click handled by the registered listener
\* prevents the default navigation and leaves focus on the main-content landmark.
C4_Original ==
    [][(skipClicks' # skipClicks /\ "clickSkipLink" \in listeners)
          => (nativeNav' = nativeNav /\ focus' = "main-content")]_vars

\* C4 amended: every skip-link click handled by the registered listener
\* prevents the default navigation; focus is on the main-content landmark when
\* the handler returns if the landmark exists, and is not moved to it otherwise.
C4_SkipLinkFocus ==
    [][(skipClicks' # skipClicks /\ "clickSkipLink" \in listeners)
          => /\ nativeNav' = nativeNav
             /\ ("main-content" \in present <=> focus' = "main-content")]_vars

C4_Witness ==
    /\ skipClicks > 0
    /\ "clickSkipLink" \in listeners
    /\ "skipLink" \notin nativeNav
    /\ focus = "main-content"

\* C5: each pointer-enter pauses the widget and each pointer-leave restarts
\* its cycle, so the widget (interval 5000, wrap, keyboard) is suspended while
\* the most recent pointer event is an enter, runs after every leave, and no
\* slide auto-advances between an enter and the following leave.
C5_CarouselHover ==
    /\ [](lastPointer = "enter" => ~cycling)
    /\ [](lastPointer = "leave" => cycling)
    /\ []("mouseenter" \in listeners
            => carouselConfig = [interval |-> 5000, wrap |-> TRUE, keyboard |-> TRUE])
    /\ [][slide' # slide => (lastPointer # "enter" /\ lastPointer' # "enter")]_vars

C5_Witness ==
    /\ lastPointer = "leave"
    /\ cycling
    /\ slide = NumSlides - 1

\* C6: every click on the back-to-top control handled by its listener
\* prevents the default action and issues exactly one scroll request, smooth
\* and targeting offset 0, whatever the offset and the class state.
C6_BackToTopClick ==
    [][(backToTopClicks' # backToTopClicks /\ "clickBackToTop" \in listeners)
          => /\ nativeNav' = nativeNav
             /\ scrollRequests' = Append(scrollRequests, [top |-> 0, behavior |-> "smooth"])]_vars

C6_Witness ==
    /\ Len(scrollRequests) = MaxClicks
    /\ lastScrollY = 301
    /\ backToTopShown
    /\ "backToTop" \notin nativeNav

\* C7 as stated: whatever elements are absent, initialization and every later
\* event complete without a runtime failure.
C7_NoFailure == failures = {}

C9_Independent ==
    pc = "ready"
        => /\ "preloader" \in present => "load" \in listeners
           /\ "skipLink" \in present => "clickSkipLink" \in listeners
           /\ "backToTop" \in present => "clickBackToTop" \in listeners
           /\ {"scrollNavbar", "scrollBackToTop"} \subseteq listeners

\* C10 as stated: a landmark that already has a tab index keeps its value
\* through every skip-link click.
C10_TabindexKept ==
    [][mainTabindex # "none" => mainTabindex' = mainTabindex]_vars

TypeOK ==
    /\ present \subseteq Elements
    /\ pc \in {"loading", "ready"}
    /\ carouselPc \in {"loading", "ready"}
    /\ lastScrollY \in Offsets \cup {NoScroll}
    /\ sinceLoad \in 0..MaxElapsed
    /\ hiddenAdds \in 0..1
    /\ mainTabindex \in TabIndexValues
    /\ Len(scrollRequests) <= MaxClicks
    /\ slide \in 0..(NumSlides - 1)
====
